---- MODULE Spec2Model ----
(***************************************************************************)
(* A model of the data-dashboard: the BigQueryTable client component       *)
(* (filter / sort derivation, header and filter events, render), the       *)
(* formatDate helper, the HomePage date normalisation and the              *)
(* fetchBigQueryData loader.                                               *)
(*                                                                         *)
(* JavaScript strings are sequences of one-character strings, so that      *)
(* toLowerCase, includes, localeCompare, Date parsing and date rendering   *)
(* are computed character by character.  A column value is a tagged        *)
(* record [t, v] with t in {"null", "str", "num", "bool"}.                 *)
(***************************************************************************)
EXTENDS Integers, Sequences, FiniteSets, TLC

VARIABLES
    data,          \* BigQueryTable: the data prop (fixed at mount), each
                   \* record named by its place in Records
    engine,        \* which Array.prototype.sort the runtime provides
    sortConfig,    \* BigQueryTable: useState sortConfig {key, direction}
    filterValues,  \* BigQueryTable: useState filterValues (partial map)
    tick,          \* alternates with every DOM event the table receives
    tz,            \* the viewer's Date.getTimezoneOffset(), in minutes
    wrapper,       \* HomePage: a raw record's load_date (BigQueryDate wrapper)
    dateArg,       \* the argument handed to formatDate
    shown,         \* what formatDate returned
    datePc,        \* position in the normalise / format pipeline
    env,           \* process.env: the four configuration values
    fetchPc,       \* fetchBigQueryData: position
    queries,       \* number of queries issued to bigqueryClient.query
    response,      \* what the warehouse answers to the query
    fetchResult    \* what fetchBigQueryData returned or threw

tableVars == <<data, engine, sortConfig, filterValues, tick>>
dateVars == <<tz, wrapper, dateArg, shown, datePc>>
fetchVars == <<env, fetchPc, queries, response, fetchResult>>
vars == <<tableVars, dateVars, fetchVars>>

----------------------------------------------------------------------------
(* Strings *)

UpperAlpha == <<"A","B","C","D","E","F","G","H","I","J","K","L","M",
                "N","O","P","Q","R","S","T","U","V","W","X","Y","Z">>
LowerAlpha == <<"a","b","c","d","e","f","g","h","i","j","k","l","m",
                "n","o","p","q","r","s","t","u","v","w","x","y","z">>
Digits == <<"0","1","2","3","4","5","6","7","8","9">>

IndexOf(seq, c) ==
    IF \E i \in 1..Len(seq) : seq[i] = c
    THEN CHOOSE i \in 1..Len(seq) : seq[i] = c
    ELSE 0

\* the characters that occur in the strings of the model
Chars ==
    {UpperAlpha[i] : i \in 1..26} \cup {LowerAlpha[i] : i \in 1..26}
    \cup {Digits[i] : i \in 1..10} \cup {" ", "-", "/"}

\* the lower-case form of each character
LowerCaseOf ==
    [c \in Chars |->
        IF IndexOf(UpperAlpha, c) # 0 THEN LowerAlpha[IndexOf(UpperAlpha, c)] ELSE c]

\* String.prototype.toLowerCase on one character
LowerChar(c) == LowerCaseOf[c]

\* String.prototype.toLowerCase
toLowerCase(s) == [i \in 1..Len(s) |-> LowerChar(s[i])]

\* String.prototype.includes
includes(s, sub) ==
    \E i \in 0..(Len(s) - Len(sub)) : SubSeq(s, i + 1, i + Len(sub)) = sub

\* the decimal digits of a natural number, most significant first
RECURSIVE NatDigits(_)
NatDigits(n) ==
    IF n < 10 THEN <<Digits[n + 1]>>
    ELSE NatDigits(n \div 10) \o <<Digits[(n % 10) + 1]>>

\* Number.prototype.toString for an integer
NumToString(n) == IF n < 0 THEN <<"-">> \o NatDigits(-n) ELSE NatDigits(n)

Null == [t |-> "null", v |-> <<>>]
Str(s) == [t |-> "str", v |-> s]
Num(n) == [t |-> "num", v |-> n]
Bool(b) == [t |-> "bool", v |-> b]

\* String(value) for a non-null column value
String(x) ==
    CASE x.t = "num" -> NumToString(x.v)
      [] x.t = "bool" -> IF x.v THEN <<"t","r","u","e">> ELSE <<"f","a","l","s","e">>
      [] OTHER -> x.v

\* lexicographic comparison of two sequences of integers: -1, 0 or 1
RECURSIVE LexCmp(_, _)
LexCmp(x, y) ==
    IF x = <<>> /\ y = <<>> THEN 0
    ELSE IF x = <<>> THEN -1
    ELSE IF y = <<>> THEN 1
    ELSE IF Head(x) < Head(y) THEN -1
    ELSE IF Head(x) > Head(y) THEN 1
    ELSE LexCmp(Tail(x), Tail(y))

\* the collation order of the characters used: punctuation, digits, letters
CollationOrder == <<" ", "-", "/">> \o Digits \o LowerAlpha

\* primary collation weight of a character: its letter, whatever its case
PrimaryWeightOf == [c \in Chars |-> IndexOf(CollationOrder, LowerChar(c))]
PrimaryWeight(c) == PrimaryWeightOf[c]

\* tertiary collation weight: lower case sorts before upper case
TertiaryWeightOf == [c \in Chars |-> IF IndexOf(UpperAlpha, c) # 0 THEN 1 ELSE 0]
TertiaryWeight(c) == TertiaryWeightOf[c]

\* String.prototype.localeCompare: letters first, case as the tie-break
localeCompare(a, b) ==
    LET p == LexCmp([i \in 1..Len(a) |-> PrimaryWeight(a[i])],
                    [i \in 1..Len(b) |-> PrimaryWeight(b[i])])
    IN IF p # 0 THEN p
       ELSE LexCmp([i \in 1..Len(a) |-> TertiaryWeight(a[i])],
                   [i \in 1..Len(b) |-> TertiaryWeight(b[i])])

----------------------------------------------------------------------------
(* BigQueryTable: filter and sort derivation *)

columnKeys == <<"load_date", "source", "record_count", "load_status">>
ColumnKeySet == {columnKeys[i] : i \in 1..Len(columnKeys)}

\* the callback of filteredData.filter: does item pass the filter on key?
ItemMatchesNoLowerCase(item, key, value) ==
    LET itemValue == item[key]
    IN IF itemValue.t = "null" THEN FALSE
       ELSE includes(toLowerCase(String(itemValue)), value)

ItemMatches(item, key, value) ==
    LET itemValue == item[key]
        filterValueLower == toLowerCase(value)
    IN IF itemValue.t = "null" THEN FALSE
       ELSE includes(toLowerCase(String(itemValue)), filterValueLower)

\* Array.prototype.filter with the callback above
RECURSIVE FilterBy(_, _, _)
FilterBy(rows, key, value) ==
    IF rows = <<>> THEN <<>>
    ELSE (IF ItemMatches(Head(rows), key, value) THEN <<Head(rows)>> ELSE <<>>)
         \o FilterBy(Tail(rows), key, value)

\* Object.entries(filterValues).forEach: one filter pass per non-empty entry.
\* The entries are visited in column order here; the object visits them in the
\* order the columns were first typed into, and each pass only removes rows.
RECURSIVE ApplyFilters(_, _, _)
ApplyFilters(rows, fv, i) ==
    IF i > Len(columnKeys) THEN rows
    ELSE LET key == columnKeys[i]
         IN IF key \in DOMAIN fv /\ fv[key] # <<>>
            THEN ApplyFilters(FilterBy(rows, key, fv[key]), fv, i + 1)
            ELSE ApplyFilters(rows, fv, i + 1)

\* the comparator handed to filteredData.sort
compareIgnoringDirection(a, b, sc) ==
    LET aValue == a[sc.key]
        bValue == b[sc.key]
    IN IF aValue.t = "null" THEN -1
       ELSE IF bValue.t = "null" THEN 1
       ELSE IF aValue.t = "num" /\ bValue.t = "num" THEN aValue.v - bValue.v
       ELSE IF aValue.t = "bool" /\ bValue.t = "bool"
            THEN (IF aValue.v = bValue.v THEN 0 ELSE IF aValue.v THEN 1 ELSE -1)
       ELSE localeCompare(String(aValue), String(bValue))

compare(a, b, sc) ==
    LET aValue == a[sc.key]
        bValue == b[sc.key]
        asc == sc.direction = "ascending"
    IN IF aValue.t = "null" THEN (IF asc THEN -1 ELSE 1)
       ELSE IF bValue.t = "null" THEN (IF asc THEN 1 ELSE -1)
       ELSE LET comparison ==
                    IF aValue.t = "num" /\ bValue.t = "num"
                    THEN aValue.v - bValue.v
                    ELSE IF aValue.t = "bool" /\ bValue.t = "bool"
                    THEN (IF aValue.v = bValue.v THEN 0
                          ELSE IF aValue.v THEN 1 ELSE -1)
                    ELSE localeCompare(String(aValue), String(bValue))
            IN IF asc THEN comparison ELSE comparison * (-1)

----------------------------------------------------------------------------
(* Array.prototype.sort, as the runtimes that render the component run it  *)
(* on an array shorter than their merge threshold.  The order it produces  *)
(* for a comparator that is not consistent is implementation-defined, so   *)
(* the algorithm is run step by step with the comparator above.            *)

\* V8 CountAndMakeRun: index of the last element of the run that starts the array
RECURSIVE RunEnd(_, _, _, _)
RunEnd(arr, idx, isDescending, sc) ==
    IF idx > Len(arr) THEN Len(arr)
    ELSE LET order == compare(arr[idx], arr[idx - 1], sc)
         IN IF isDescending /\ order >= 0 THEN idx - 1
            ELSE IF ~isDescending /\ order < 0 THEN idx - 1
            ELSE RunEnd(arr, idx + 1, isDescending, sc)

Reverse(s) == [i \in 1..Len(s) |-> s[Len(s) + 1 - i]]

\* V8 BinaryInsertionSort: the place of pivot in the sorted prefix [left, right)
RECURSIVE BinarySearch(_, _, _, _, _)
BinarySearch(arr, pivot, left, right, sc) ==
    IF left >= right THEN left
    ELSE LET mid == left + ((right - left) \div 2)
             order == compare(pivot, arr[mid], sc)
         IN IF order < 0 THEN BinarySearch(arr, pivot, left, mid, sc)
            ELSE BinarySearch(arr, pivot, mid + 1, right, sc)

\* V8 BinaryInsertionSort: insert the elements from index start on
RECURSIVE BinaryInsertionSort(_, _, _)
BinaryInsertionSort(arr, start, sc) ==
    IF start > Len(arr) THEN arr
    ELSE LET pivot == arr[start]
             left == BinarySearch(arr, pivot, 1, start, sc)
             placed == SubSeq(arr, 1, left - 1) \o <<pivot>>
                       \o SubSeq(arr, left, start - 1)
                       \o SubSeq(arr, start + 1, Len(arr))
         IN BinaryInsertionSort(placed, start + 1, sc)

\* V8 ArrayTimSort on an array of one run: make the run, insert the rest
TimSort(arr, sc) ==
    IF Len(arr) < 2 THEN arr
    ELSE LET isDescending == compare(arr[2], arr[1], sc) < 0
             runLength == RunEnd(arr, 3, isDescending, sc)
             run == SubSeq(arr, 1, runLength)
             made == (IF isDescending THEN Reverse(run) ELSE run)
                     \o SubSeq(arr, runLength + 1, Len(arr))
         IN BinaryInsertionSort(made, runLength + 1, sc)

\* linear insertion sort: the place of item, scanning the sorted prefix downwards
RECURSIVE InsertPlace(_, _, _, _)
InsertPlace(arr, item, j, sc) ==
    IF j < 1 THEN 1
    ELSE IF compare(arr[j], item, sc) <= 0 THEN j + 1
    ELSE InsertPlace(arr, item, j - 1, sc)

\* linear insertion sort (SpiderMonkey, JavaScriptCore on short arrays)
RECURSIVE InsertionSort(_, _, _)
InsertionSort(arr, i, sc) ==
    IF i > Len(arr) THEN arr
    ELSE LET item == arr[i]
             at == InsertPlace(arr, item, i - 1, sc)
             placed == SubSeq(arr, 1, at - 1) \o <<item>>
                       \o SubSeq(arr, at, i - 1)
                       \o SubSeq(arr, i + 1, Len(arr))
         IN InsertionSort(placed, i + 1, sc)

Engines == {"timsort", "insertion"}

\* filteredData.sort(comparator)
sort(arr, sc, eng) ==
    IF eng = "timsort" THEN TimSort(arr, sc) ELSE InsertionSort(arr, 2, sc)

NoKey == "none"

\* the useMemo body: filter, then sort when a sort key is set
ProcessedData(d, sc, fv, eng) ==
    LET filteredData == ApplyFilters(d, fv, 1)
    IN IF sc.key # NoKey
       THEN [rows |-> sort(filteredData, sc, eng), sorted |-> TRUE]
       ELSE [rows |-> filteredData, sorted |-> FALSE]

----------------------------------------------------------------------------
(* BigQueryTable: event handlers *)

\* handleSort: the direction a click on key selects
NextDirectionAlwaysAscending(sc, key) == "ascending"

NextDirection(sc, key) ==
    IF sc.key = key /\ sc.direction = "ascending"
    THEN "descending"
    ELSE "ascending"

\* handleSort: the sort configuration after a click on key
SortConfigUnsetOnThirdClick(sc, key) ==
    IF sc.key = key /\ sc.direction = "descending"
    THEN [key |-> NoKey, direction |-> "ascending"]
    ELSE [key |-> key, direction |-> NextDirection(sc, key)]

SortConfigAfter(sc, key) == [key |-> key, direction |-> NextDirection(sc, key)]

\* handleFilterChange: {...prev, [key]: value}
FilterValuesReplaced(prev, key, value) == [k \in {key} |-> value]

FilterValuesAfter(prev, key, value) ==
    [k \in (DOMAIN prev) \cup {key} |-> IF k = key THEN value ELSE prev[k]]

\* the elements of one header cell, each with its parent
Parent(el) ==
    CASE el = "span" -> "div"
      [] el = "div" -> "th"
      [] el = "input" -> "th"
      [] OTHER -> "root"

\* a click bubbling from el: the input stops it, the div runs handleSort(key)
RECURSIVE Bubble(_, _, _)
Bubble(el, key, sc) ==
    IF el = "root" THEN sc
    ELSE IF el = "input" THEN sc
    ELSE IF el = "div" THEN Bubble(Parent(el), key, SortConfigAfter(sc, key))
    ELSE Bubble(Parent(el), key, sc)

----------------------------------------------------------------------------
(* formatDate, and the Date operations it uses.  Time is counted in        *)
(* minutes since the epoch; a Date whose time value is NaN has nan = TRUE. *)

Undefined == [t |-> "undefined", v |-> <<>>]
NoWrapper == [t |-> "absent", v |-> <<>>]
NaNDate == [nan |-> TRUE, time |-> 0]
MinutesPerDay == 24 * 60

\* the value of each decimal digit, -1 for any other character
DigitValueOf == [c \in Chars |-> IndexOf(Digits, c) - 1]

IsDigit(c) == DigitValueOf[c] >= 0

\* the number a sequence of decimal digits denotes
RECURSIVE DigitsValue(_)
DigitsValue(s) ==
    IF s = <<>> THEN 0
    ELSE DigitsValue(SubSeq(s, 1, Len(s) - 1)) * 10 + DigitValueOf[s[Len(s)]]

IsLeapYear(y) == (y % 4 = 0 /\ y % 100 # 0) \/ y % 400 = 0

DaysInMonth(y, m) ==
    IF m = 2 THEN (IF IsLeapYear(y) THEN 29 ELSE 28)
    ELSE IF m \in {4, 6, 9, 11} THEN 30 ELSE 31

\* MakeDay: days from the epoch to the civil date y-m-d
DaysFromCivil(y, m, d) ==
    LET yy == IF m <= 2 THEN y - 1 ELSE y
        era == yy \div 400
        yoe == yy - era * 400
        mp == IF m > 2 THEN m - 3 ELSE m + 9
        doy == ((153 * mp + 2) \div 5) + d - 1
        doe == yoe * 365 + (yoe \div 4) - (yoe \div 100) + doy
    IN era * 146097 + doe - 719468

\* YearFromTime, MonthFromTime, DateFromTime: the civil date of a day number
CivilFromDays(days) ==
    LET z == days + 719468
        era == z \div 146097
        doe == z - era * 146097
        yoe == (doe - (doe \div 1460) + (doe \div 36524) - (doe \div 146096)) \div 365
        doy == doe - (365 * yoe + (yoe \div 4) - (yoe \div 100))
        mp == (5 * doy + 2) \div 153
        d == doy - ((153 * mp + 2) \div 5) + 1
        m == IF mp < 10 THEN mp + 3 ELSE mp - 9
        y == yoe + era * 400 + (IF m <= 2 THEN 1 ELSE 0)
    IN [year |-> y, month |-> m, day |-> d]

\* new Date(dateString) for a date-only string: YYYY-MM-DD is UTC midnight,
\* anything else here is not a date and gives an invalid Date
DateParse(s) ==
    IF /\ Len(s) = 10
       /\ s[5] = "-" /\ s[8] = "-"
       /\ \A i \in {1, 2, 3, 4, 6, 7, 9, 10} : IsDigit(s[i])
    THEN LET y == DigitsValue(SubSeq(s, 1, 4))
             m == DigitsValue(SubSeq(s, 6, 7))
             d == DigitsValue(SubSeq(s, 9, 10))
         IN IF m \in 1..12 /\ d \in 1..DaysInMonth(y, m)
            THEN [nan |-> FALSE, time |-> DaysFromCivil(y, m, d) * MinutesPerDay]
            ELSE NaNDate
    ELSE NaNDate

\* LocalTime(t): the wall clock of a viewer whose getTimezoneOffset() is off
LocalTime(time, off) == time - off

\* UTC(t): the time value of a wall clock reading
UTCTime(local, off) == local + off

\* Date.prototype.getMinutes
getMinutes(date, off) == LocalTime(date.time, off) % 60

\* Date.prototype.setMinutes(min): set the minute field of the local time
setMinutes(date, min, off) ==
    IF date.nan THEN date
    ELSE LET local == LocalTime(date.time, off)
         IN [nan |-> FALSE, time |-> UTCTime((local - (local % 60)) + min, off)]

\* a natural number in at least width decimal digits
RECURSIVE Pad(_, _)
Pad(s, width) == IF Len(s) >= width THEN s ELSE Pad(<<"0">> \o s, width)

InvalidDate == <<"I","n","v","a","l","i","d"," ","D","a","t","e">>
NotAvailable == <<"N","/","A">>

\* Date.prototype.toLocaleDateString('en-CA'): the local day as YYYY-MM-DD
toLocaleDateString(date, off) ==
    IF date.nan THEN InvalidDate
    ELSE LET c == CivilFromDays(LocalTime(date.time, off) \div MinutesPerDay)
         IN Pad(NatDigits(c.year), 4) \o <<"-">> \o Pad(NatDigits(c.month), 2)
            \o <<"-">> \o Pad(NatDigits(c.day), 2)

\* none of new Date(string), setMinutes and toLocaleDateString('en-CA') throws
DateOperationsThrow(dateString) == FALSE

\* formatDate(dateString) for a viewer whose getTimezoneOffset() is off
formatDateNoOffsetCorrection(dateString, off) ==
    IF dateString.t # "str" \/ dateString.v = <<>> THEN NotAvailable
    ELSE toLocaleDateString(DateParse(dateString.v), off)

formatDate(dateString, off) ==
    IF dateString.t # "str" \/ dateString.v = <<>> THEN NotAvailable
    ELSE IF DateOperationsThrow(dateString.v)
         THEN (IF dateString.v # <<>> THEN dateString.v ELSE InvalidDate)
         ELSE LET date == DateParse(dateString.v)
                  shifted == setMinutes(date, getMinutes(date, off) + off, off)
              IN toLocaleDateString(shifted, off)

\* HomePage: record.load_date?.value ?? null
Normalize(w) ==
    IF w.t \in {"null", "undefined"} THEN Null
    ELSE IF w.v.t \in {"null", "undefined"} THEN Null
    ELSE w.v

----------------------------------------------------------------------------
(* BigQueryTable: render *)

\* renderSortArrow
renderSortArrow(sc, columnKey) ==
    IF sc.key # columnKey THEN "" ELSE IF sc.direction = "ascending" THEN "up" ELSE "down"

\* one <tr> of the body for a record of the view; toLocaleString of a count
\* below 1000 is its decimal digits
RenderRow(row, off) ==
    [kind |-> "record",
     cells |-> << formatDate(row.load_date, off),
                  IF row.source.t = "null" THEN NotAvailable ELSE String(row.source),
                  IF row.record_count.t = "null" THEN NotAvailable
                  ELSE NumToString(row.record_count.v),
                  IF row.load_status.v THEN <<"S","u","c","c","e","s","s">>
                  ELSE <<"F","a","i","l","e","d">> >>]

NoMatchRow == [kind |-> "no-match", cells |-> <<>>]

\* the component's return value
RenderTableAlways(d, sc, fv, view, off) ==
    [message |-> "",
     headers |-> [i \in 1..Len(columnKeys) |-> renderSortArrow(sc, columnKeys[i])],
     filterInputs |-> [i \in 1..Len(columnKeys) |->
                          IF columnKeys[i] \in DOMAIN fv THEN fv[columnKeys[i]] ELSE <<>>],
     body |-> IF Len(view) > 0
              THEN [i \in 1..Len(view) |-> RenderRow(view[i], off)]
              ELSE <<NoMatchRow>>]

Render(d, sc, fv, view, off) ==
    IF Len(d) = 0
    THEN [message |-> "No initial data found to display or filter.",
          headers |-> <<>>, filterInputs |-> <<>>, body |-> <<>>]
    ELSE [message |-> "",
          headers |-> [i \in 1..Len(columnKeys) |-> renderSortArrow(sc, columnKeys[i])],
          filterInputs |-> [i \in 1..Len(columnKeys) |->
                               IF columnKeys[i] \in DOMAIN fv THEN fv[columnKeys[i]] ELSE <<>>],
          body |-> IF Len(view) > 0
                   THEN [i \in 1..Len(view) |-> RenderRow(view[i], off)]
                   ELSE <<NoMatchRow>>]

----------------------------------------------------------------------------
(* Inputs *)

MaxRows == 3

Rec(d, s, n, b) == [load_date |-> d, source |-> s, record_count |-> n, load_status |-> b]

Date20240101 == <<"2","0","2","4","-","0","1","-","0","1">>
Date20231231 == <<"2","0","2","3","-","1","2","-","3","1">>
Date20240315 == <<"2","0","2","4","-","0","3","-","1","5">>
Date20240229 == <<"2","0","2","4","-","0","2","-","2","9">>
Date20000301 == <<"2","0","0","0","-","0","3","-","0","1">>
Date19691231 == <<"1","9","6","9","-","1","2","-","3","1">>

\* the records a table is mounted with
Records ==
    << Rec(Str(Date20240101), Str(<<"A">>), Num(10), Bool(TRUE)),
       Rec(Null, Str(<<"B">>), Num(5), Bool(FALSE)),
       Rec(Str(Date20231231), Str(<<"a","b">>), Num(100), Bool(TRUE)) >>

RecordPool == {Records[i] : i \in 1..Len(Records)}

RECURSIVE SeqsUpTo(_, _)
SeqsUpTo(S, n) ==
    IF n = 0 THEN {<<>>}
    ELSE LET shorter == SeqsUpTo(S, n - 1)
         IN shorter \cup {Append(q, x) : q \in shorter, x \in S}

DataArrays == SeqsUpTo(1..Len(Records), MaxRows)

\* the data prop as the array of records it is
dataRows == [i \in 1..Len(data) |-> Records[data[i]]]

\* the texts typed into each column's filter box
FilterTexts(key) ==
    CASE key = "load_date" -> {<<"2","0","2","4">>}
      [] key = "source" -> {<<"a">>, <<"B">>}
      [] key = "record_count" -> {<<>>, <<"1">>}
      [] OTHER -> {<<"T","R","U">>}

DefaultSortConfig == [key |-> "load_date", direction |-> "descending"]

----------------------------------------------------------------------------
(* BigQueryTable: the state machine *)

DateIdle ==
    /\ wrapper = NoWrapper
    /\ dateArg = Null
    /\ shown = <<>>
    /\ datePc = "idle"

FetchIdle ==
    /\ env = <<>>
    /\ fetchPc = "idle"
    /\ queries = <<>>
    /\ response = [kind |-> "none", rows |-> 0, message |-> ""]
    /\ fetchResult = [kind |-> "none", rows |-> 0, message |-> ""]

TableIdle ==
    /\ data = <<>>
    /\ engine = "timsort"
    /\ sortConfig = DefaultSortConfig
    /\ filterValues = <<>>
    /\ tick = 0

\* useMemo(..., [data, sortConfig, filterValues]): the derivation is recomputed
\* in the render that follows every change of its three inputs, so what a
\* render shows is this function of the state
processedData == ProcessedData(dataRows, sortConfig, filterValues, engine)

\* what is on screen
rendered == Render(dataRows, sortConfig, filterValues, processedData.rows, tz)

\* mount: the useState initial values
TableInit ==
    /\ data \in DataArrays
    /\ engine \in Engines
    /\ sortConfig = DefaultSortConfig
    /\ filterValues = <<>>
    /\ tick = 0
    /\ tz = 0
    /\ DateIdle
    /\ FetchIdle

\* the header, its filter inputs and the handlers exist only when data is non-empty
Mounted == Len(data) > 0

\* a click on the header div or the span inside it
ClickHeader(key, target) ==
    /\ Mounted
    /\ target \in {"div", "span"}
    /\ sortConfig' = Bubble(target, key, sortConfig)
    /\ tick' = 1 - tick
    /\ UNCHANGED <<data, engine, filterValues, dateVars, fetchVars>>

\* a click inside a filter input
ClickFilterInput(key) ==
    /\ Mounted
    /\ sortConfig' = Bubble("input", key, sortConfig)
    /\ tick' = 1 - tick
    /\ UNCHANGED <<data, engine, filterValues, dateVars, fetchVars>>

\* onChange of a filter input: handleFilterChange(key, e.target.value)
ChangeFilter(key, value) ==
    /\ Mounted
    /\ filterValues' = FilterValuesAfter(filterValues, key, value)
    /\ tick' = 1 - tick
    /\ UNCHANGED <<data, engine, sortConfig, dateVars, fetchVars>>

TableNext ==
    \/ \E key \in ColumnKeySet : \E target \in {"div", "span"} : ClickHeader(key, target)
    \/ \E key \in ColumnKeySet : ClickFilterInput(key)
    \/ \E key \in ColumnKeySet : \E value \in FilterTexts(key) : ChangeFilter(key, value)

SpecTable == TableInit /\ [][TableNext]_vars

\* The handlers read sortConfig and filterValues only, and the header that
\* takes the events is the same for every non-empty data prop: the event
\* properties are checked on tables of at most MaxEventRows rows.
MaxEventRows == 1

EventsInit == TableInit /\ Len(data) <= MaxEventRows

SpecEvents == EventsInit /\ [][TableNext]_vars

----------------------------------------------------------------------------
(* HomePage normalisation followed by formatDate at render *)

\* getTimezoneOffset() of the viewers: UTC+14, UTC+5:30, UTC+1, UTC, UTC-5, UTC-12
TzOffsets == {-840, -330, -60, 0, 300, 720}

ValidDates ==
    {Date20240101, Date20231231, Date20240315, Date20240229, Date20000301, Date19691231}

\* strings that are not dates
Unparseable == { <<"n","/","a">>, <<"a","b","c">>,
                 <<"2","0","2","4","-","1","3","-","0","1">> }

Wrap(value) == [t |-> "wrapper", v |-> value]

\* the load_date of a raw row: null, undefined, or a BigQueryDate {value}
Wrappers ==
    {Null, Undefined, Wrap(Undefined), Wrap(Str(<<>>))}
    \cup {Wrap(Str(d)) : d \in ValidDates \cup Unparseable}

\* the arguments formatDate accepts: string | null | undefined
DateArgs ==
    {Null, Undefined, Str(<<>>)} \cup {Str(d) : d \in ValidDates \cup Unparseable}

DateInit ==
    /\ tz \in TzOffsets
    /\ \/ /\ datePc = "raw"
          /\ wrapper \in Wrappers
          /\ dateArg = Null
       \/ /\ datePc = "normalized"
          /\ wrapper = NoWrapper
          /\ dateArg \in DateArgs
    /\ shown = <<>>
    /\ TableIdle
    /\ FetchIdle

\* HomePage: rawData.map(record => ({...record, load_date: ...}))
NormalizeDate ==
    /\ datePc = "raw"
    /\ dateArg' = Normalize(wrapper)
    /\ datePc' = "normalized"
    /\ UNCHANGED <<tz, wrapper, shown, tableVars, fetchVars>>

\* BigQueryTable: {formatDate(row.load_date)}
FormatDate ==
    /\ datePc = "normalized"
    /\ shown' = formatDate(dateArg, tz)
    /\ datePc' = "shown"
    /\ UNCHANGED <<tz, wrapper, dateArg, tableVars, fetchVars>>

DateNext == NormalizeDate \/ FormatDate

SpecDate == DateInit /\ [][DateNext]_vars

----------------------------------------------------------------------------
(* fetchBigQueryData *)

ConfigNames == {"GCP_PROJECT_ID", "BIGQUERY_DATASET", "BIGQUERY_TABLE", "BIGQUERY_LOCATION"}

EnvStr(s) == [t |-> "str", v |-> s]

\* a variable of process.env: unset, empty or set
EnvValues == {Undefined, EnvStr(""), EnvStr("x")}

\* !value for a value of process.env
Falsy(value) == value.t = "undefined" \/ value.v = ""

ConfigErrorMessage ==
    "Missing required environment variables for BigQuery connection (GCP_PROJECT_ID, BIGQUERY_DATASET, BIGQUERY_TABLE, BIGQUERY_LOCATION)"

\* what bigqueryClient.query can answer: rows, a rejection with an Error,
\* or a rejection with a value that is not an Error
Responses ==
    { [kind |-> "rows", rows |-> 0, message |-> ""],
      [kind |-> "rows", rows |-> 2, message |-> ""],
      [kind |-> "rows", rows |-> 100, message |-> ""],
      [kind |-> "error", rows |-> 0, message |-> "Not found: Table x.x.x"],
      [kind |-> "error", rows |-> 0, message |-> ""],
      [kind |-> "value", rows |-> 0, message |-> "quota exceeded"] }

NoResponse == [kind |-> "none", rows |-> 0, message |-> ""]

FetchInit ==
    /\ env \in [ConfigNames -> EnvValues]
    /\ fetchPc = "start"
    /\ queries = <<>>
    /\ response = NoResponse
    /\ fetchResult = NoResponse
    /\ tz = 0
    /\ TableIdle
    /\ DateIdle

\* lines 247-251: the guard on the four configuration values
ConfigMissingIgnoringLocation(e) ==
    Falsy(e["BIGQUERY_DATASET"]) \/ Falsy(e["BIGQUERY_TABLE"]) \/ Falsy(e["GCP_PROJECT_ID"])

ConfigMissing(e) ==
    \/ Falsy(e["BIGQUERY_DATASET"])
    \/ Falsy(e["BIGQUERY_TABLE"])
    \/ Falsy(e["GCP_PROJECT_ID"])
    \/ Falsy(e["BIGQUERY_LOCATION"])

\* the options of the query: the table it reads and the location
QueryOptions(e) ==
    [table |-> <<e["GCP_PROJECT_ID"].v, e["BIGQUERY_DATASET"].v, e["BIGQUERY_TABLE"].v>>,
     location |-> e["BIGQUERY_LOCATION"]]

\* the configuration check throws before any query
FetchConfigError ==
    /\ fetchPc = "start"
    /\ ConfigMissing(env)
    /\ fetchResult' = [kind |-> "threw", rows |-> 0, message |-> ConfigErrorMessage]
    /\ fetchPc' = "done"
    /\ UNCHANGED <<env, queries, response, tz, tableVars, dateVars>>

\* await bigqueryClient.query(options)
FetchQuery ==
    /\ fetchPc = "start"
    /\ ~ConfigMissing(env)
    /\ queries' = Append(queries, QueryOptions(env))
    /\ fetchPc' = "awaiting"
    /\ UNCHANGED <<env, response, fetchResult, tz, tableVars, dateVars>>

\* the catch block: the message of the error thrown to the caller
WrappedMessage(r) == "Failed to fetch data from BigQuery." \o " " \o r.message

\* the query resolves: return rows
FetchResolved(r) ==
    /\ fetchPc = "awaiting"
    /\ r.kind = "rows"
    /\ response' = r
    /\ fetchResult' = [kind |-> "returned", rows |-> r.rows, message |-> ""]
    /\ fetchPc' = "done"
    /\ UNCHANGED <<env, queries, tz, tableVars, dateVars>>

\* the query rejects: throw new Error(errorMessage)
FetchRejected(r) ==
    /\ fetchPc = "awaiting"
    /\ r.kind \in {"error", "value"}
    /\ response' = r
    /\ fetchResult' = [kind |-> "threw", rows |-> 0, message |-> WrappedMessage(r)]
    /\ fetchPc' = "done"
    /\ UNCHANGED <<env, queries, tz, tableVars, dateVars>>

FetchNext ==
    \/ FetchConfigError
    \/ FetchQuery
    \/ \E r \in Responses : FetchResolved(r)
    \/ \E r \in Responses : FetchRejected(r)

SpecFetch == FetchInit /\ [][FetchNext]_vars

----------------------------------------------------------------------------
(* Properties *)

\* number of occurrences of x in the sequence q
Count(q, x) == Cardinality({i \in 1..Len(q) : q[i] = x})

Sign(n) == IF n < 0 THEN -1 ELSE IF n > 0 THEN 1 ELSE 0

view == processedData.rows

ActiveFilter(k) == k \in DOMAIN filterValues /\ filterValues[k] # <<>>

\* r satisfies every active filter
Keeps(r) ==
    \A k \in ColumnKeySet :
        ActiveFilter(k) =>
            /\ r[k].t # "null"
            /\ includes(toLowerCase(String(r[k])), toLowerCase(filterValues[k]))

\* C1: the view holds exactly the records of the input that satisfy every
\* active filter (non-null in the column, text form containing the filter
\* text, case ignored), each as often as the input holds it; columns with an
\* absent or empty filter impose nothing, active filters combine with AND.
C1_FilterContract ==
    LET v == view
    IN \A r \in RecordPool :
           Count(v, r) = IF Keeps(r) THEN Count(dataRows, r) ELSE 0

C1_Witness ==
    /\ ActiveFilter("load_date") /\ ActiveFilter("source")
    /\ "record_count" \in DOMAIN filterValues /\ filterValues["record_count"] = <<>>
    /\ \E i \in 1..Len(data) : dataRows[i].load_date.t = "null"
    /\ LET v == view IN Len(v) > 0 /\ Len(v) < Len(data)

\* x is not after y in the order of a column's values: null first, numbers by
\* value, false before true, strings by localeCompare
ValueLeq(x, y) ==
    IF x.t = "null" THEN TRUE
    ELSE IF y.t = "null" THEN FALSE
    ELSE IF x.t = "num" THEN x.v <= y.v
    ELSE IF x.t = "bool" THEN (~x.v) \/ y.v
    ELSE localeCompare(x.v, y.v) <= 0

\* C2: the view is a permutation of the filtered array and every adjacent pair
\* is in the declared direction on the sort column, nulls first when ascending
\* and last when descending.
C2_SortedView ==
    LET v == view
        filtered == ApplyFilters(dataRows, filterValues, 1)
    IN /\ \A r \in RecordPool : Count(v, r) = Count(filtered, r)
       /\ Len(v) = Len(filtered)
       /\ \A i \in 1..(Len(v) - 1) :
              IF sortConfig.direction = "ascending"
              THEN ValueLeq(v[i][sortConfig.key], v[i + 1][sortConfig.key])
              ELSE ValueLeq(v[i + 1][sortConfig.key], v[i][sortConfig.key])

C2_Witness ==
    /\ sortConfig = DefaultSortConfig
    /\ Len(data) = 3
    /\ LET v == view
       IN /\ Len(v) = 3
          /\ v # dataRows
          /\ v[3].load_date.t = "null"
          /\ v[1].load_date.t # "null"

\* C3: the table mounts with (load_date, descending); a header click on the
\* current sort key keeps the key and flips the direction, a click on another
\* column sets (that column, ascending); so record_count, record_count, source
\* gives (record_count, asc), (record_count, desc), (source, asc).
C3_HeaderClick ==
    /\ sortConfig = DefaultSortConfig
    /\ LET s1 == Bubble("div", "record_count", DefaultSortConfig)
           s2 == Bubble("div", "record_count", s1)
           s3 == Bubble("span", "source", s2)
       IN /\ s1 = [key |-> "record_count", direction |-> "ascending"]
          /\ s2 = [key |-> "record_count", direction |-> "descending"]
          /\ s3 = [key |-> "source", direction |-> "ascending"]
    /\ [][\A key \in ColumnKeySet : \A target \in {"div", "span"} :
              ClickHeader(key, target) =>
                  /\ sortConfig'.key = key
                  /\ sortConfig'.direction =
                         IF sortConfig.key # key THEN "ascending"
                         ELSE IF sortConfig.direction = "ascending" THEN "descending"
                         ELSE "ascending"]_vars

C3_Witness ==
    /\ sortConfig = [key |-> "record_count", direction |-> "descending"]
    /\ tick = 0

\* C6: a render is exactly one of: the no-data message and no table; the table
\* header with the single no-match row; the header with one row per record of
\* the view and no message.
C6_RenderCases ==
    LET shows == rendered
        v == view
        noData == /\ shows.message = "No initial data found to display or filter."
                  /\ shows.headers = <<>>
                  /\ shows.filterInputs = <<>>
                  /\ shows.body = <<>>
        noMatch == /\ shows.message = ""
                   /\ Len(shows.headers) = Len(columnKeys)
                   /\ Len(shows.filterInputs) = Len(columnKeys)
                   /\ Len(shows.body) = 1
                   /\ shows.body[1].kind = "no-match"
        perRecord == /\ shows.message = ""
                /\ Len(shows.headers) = Len(columnKeys)
                /\ Len(shows.filterInputs) = Len(columnKeys)
                /\ Len(shows.body) = Len(v)
                /\ \A i \in 1..Len(v) :
                       /\ shows.body[i].kind = "record"
                       /\ shows.body[i].cells[2] = v[i].source.v
    IN /\ Len(data) = 0 => noData /\ ~noMatch /\ ~perRecord
       /\ (Len(data) > 0 /\ Len(v) = 0) => noMatch /\ ~noData /\ ~perRecord
       /\ (Len(data) > 0 /\ Len(v) > 0) => perRecord /\ ~noData /\ ~noMatch

C6_Witness ==
    /\ Len(data) > 0
    /\ ActiveFilter("source")
    /\ Len(view) = 0
    /\ rendered.body = <<NoMatchRow>>

\* C8: a filter change on column c with text v sets the entry of c to v and
\* leaves the other entries and the sort configuration alone; a header click
\* leaves the filter mapping alone; a click inside a filter input changes
\* neither.
C8_Frames ==
    [][/\ \A key \in ColumnKeySet : \A value \in FilterTexts(key) :
              ChangeFilter(key, value) =>
                  /\ key \in DOMAIN filterValues'
                  /\ filterValues'[key] = value
                  /\ DOMAIN filterValues' = (DOMAIN filterValues) \cup {key}
                  /\ \A k \in (DOMAIN filterValues) \ {key} :
                         filterValues'[k] = filterValues[k]
                  /\ sortConfig' = sortConfig
       /\ \A key \in ColumnKeySet : \A target \in {"div", "span"} :
              ClickHeader(key, target) => filterValues' = filterValues
       /\ \A key \in ColumnKeySet :
              ClickFilterInput(key) =>
                  sortConfig' = sortConfig /\ filterValues' = filterValues]_vars

C8_Witness ==
    /\ Cardinality(DOMAIN filterValues) >= 2
    /\ sortConfig = [key |-> "source", direction |-> "ascending"]
    /\ tick = 1

\* C9: the comparator is a total ordering of the records it is given: the sign
\* of cmp(a, b) is opposite to the sign of cmp(b, a), cmp(a, a) = 0, and it is
\* transitive.
C9_ComparatorTotalOrder ==
    \A i, j, k \in 1..Len(data) :
        LET a == dataRows[i]
            b == dataRows[j]
            c == dataRows[k]
        IN /\ Sign(compare(a, b, sortConfig)) = -Sign(compare(b, a, sortConfig))
           /\ compare(a, a, sortConfig) = 0
           /\ (compare(a, b, sortConfig) <= 0 /\ compare(b, c, sortConfig) <= 0)
                  => compare(a, c, sortConfig) <= 0

\* C10: the sort key is always one of the four column keys, so every
\* derivation takes the sort branch.
C10_SortKeySet ==
    /\ sortConfig.key \in ColumnKeySet
    /\ sortConfig.key # NoKey
    /\ processedData.sorted

C10_Witness ==
    /\ sortConfig = [key |-> "load_status", direction |-> "descending"]
    /\ ActiveFilter("source")
    /\ Len(view) > 0

Falsey(x) == x.t \in {"null", "undefined"} \/ x.v = <<>>

\* C4: formatDate shows "N/A" for null, undefined and "", and shows a string
\* that is not a date as it is.
C4_FormatDateFallback ==
    datePc = "shown" =>
        /\ Falsey(dateArg) => shown = NotAvailable
        /\ (~Falsey(dateArg) /\ dateArg.v \in Unparseable) => shown = dateArg.v

\* C5: a valid calendar date shows as itself in every timezone, and a null
\* wrapper normalises to null and shows as "N/A".
C5_RoundTrip ==
    /\ (datePc \in {"normalized", "shown"} /\ wrapper = Null) => dateArg = Null
    /\ (datePc = "shown" /\ wrapper = Null) => shown = NotAvailable
    /\ \A d \in ValidDates :
           (datePc = "shown" /\ wrapper = Wrap(Str(d))) => shown = d

C5_Witness ==
    /\ datePc = "shown"
    /\ wrapper = Wrap(Str(Date20240315))
    /\ tz = 300
    /\ shown = Date20240315

Missing(name) == env[name] = Undefined \/ env[name] = EnvStr("")

\* C7: with a configuration value missing the call throws the configuration
\* error and issues no query; with all four present it issues exactly one
\* query, and a failure of that query is thrown once, wrapping its message.
C7_FetchContract ==
    /\ Len(queries) <= 1
    /\ (fetchPc # "idle" /\ \E n \in ConfigNames : Missing(n)) =>
           /\ queries = <<>>
           /\ fetchPc = "done" =>
                  fetchResult = [kind |-> "threw", rows |-> 0, message |-> ConfigErrorMessage]
    /\ (fetchPc \in {"awaiting", "done"} /\ \A n \in ConfigNames : ~Missing(n)) =>
           Len(queries) = 1
    /\ (fetchPc = "done" /\ response.kind \in {"error", "value"}) =>
           /\ fetchResult.kind = "threw"
           /\ fetchResult.message =
                  "Failed to fetch data from BigQuery. " \o response.message
           /\ Len(queries) = 1

C7_Witness ==
    /\ fetchPc = "done"
    /\ response.kind = "error"
    /\ response.message # ""
    /\ fetchResult.kind = "threw"
    /\ Len(queries) = 1

====
